---- MODULE Spec2Model ----
(***************************************************************************)
(* Model of the "add constraint" operation of delta-rs                     *)
(* (crates/deltalake-core/src/operations/constraints.rs).                  *)
(*                                                                         *)
(* ConstraintBuilder::into_future is an async block; it is modelled as one *)
(* action per stretch of code between two suspension points, for each of   *)
(* the operation instances in Ops.  The partition tasks it spawns are      *)
(* modelled as separate processes (TaskStep).  The transaction log is      *)
(* shared by the operation instances and by other writers of the table.    *)
(***************************************************************************)
EXTENDS Integers, Sequences, FiniteSets, TLC

(* ---------------------------- bounds ----------------------------------- *)
MaxVersion == 2          \* highest table version the log may reach
MaxParts == 2            \* highest partition count a scan plan may have
MaxRuns == 2             \* invocations of the operation over all instances
MaxWrites == 1           \* commits of other writers
MaxFaults == 1           \* failures of the storage, the engine or a task

Ops == {"opA", "opB"}    \* the concurrent operation instances
Names == {"id", "c2"}    \* constraint names callers may pass
Batches == {<<1>>, <<1, 3>>}   \* batches of values of the integer column `value`

(* ---------------------------- Option ----------------------------------- *)
None == <<>>
Some(v) == <<v>>
IsSome(o) == o # <<>>
Unwrap(o) == o[1]

Max(a, b) == IF a >= b THEN a ELSE b

(* ------------------------ expressions ---------------------------------- *)
\* Expression::String(s) carries the text as typed; Expression::DataFusion(e)
\* carries a parsed expression whose Display form prints the literal with its
\* type, e.g. "value > Int32(2)".
IntLiteral(n) == CASE n = 0 -> "0" [] n = 1 -> "1" [] n = 2 -> "2"
                   [] n = 3 -> "3" [] OTHER -> "4"
TypedLiteral(n) == CASE n = 0 -> "Int32(0)" [] n = 1 -> "Int32(1)"
                     [] n = 2 -> "Int32(2)" [] n = 3 -> "Int32(3)"
                     [] OTHER -> "Int32(4)"
ExprToString(e) == <<e.col, e.op, TypedLiteral(e.lit)>>

Expressions ==
    { [kind |-> "String", s |-> <<"value", "<", IntLiteral(2)>>],
      [kind |-> "DataFusion", e |-> [col |-> "value", op |-> ">", lit |-> 0]] }

\* The checker parses the SQL text of the constraint and evaluates it on a row.
LiteralValue(tok) == CASE tok \in {"0", "Int32(0)"} -> 0
                       [] tok \in {"1", "Int32(1)"} -> 1
                       [] tok \in {"2", "Int32(2)"} -> 2
                       [] tok \in {"3", "Int32(3)"} -> 3
                       [] OTHER -> 4
RowSatisfies(text, row) ==
    IF text[2] = "<" THEN row < LiteralValue(text[3])
                     ELSE row > LiteralValue(text[3])
check_batch(text, batch) ==
    \A k \in 1..Len(batch) : RowSatisfies(text, batch[k])

(* ------------------------- data model ---------------------------------- *)
\* DeltaTableMetaData holds the parsed schema; the kernel Metadata action
\* holds it as a JSON string.
SchemaToJson(schema) == <<"json", schema>>
SchemaFromJson(schema_string) == schema_string[2]

\* Metadata::try_from(DeltaTableMetaData), the success case
MetadataTryFrom(metadata) ==
    [configuration |-> metadata.configuration,
     schema_string |-> SchemaToJson(metadata.schema),
     partition_columns |-> metadata.partition_columns]

\* DeltaTableMetaData::try_from(Metadata), used when a log is replayed
TableMetaDataFrom(m) ==
    [configuration |-> m.configuration,
     schema |-> SchemaFromJson(m.schema_string),
     partition_columns |-> m.partition_columns]

InitialProtocols ==
    { [min_reader_version |-> 1, min_writer_version |-> 2,
       reader_features |-> {}, writer_features |-> {}],
      [min_reader_version |-> 3, min_writer_version |-> 7,
       reader_features |-> {"timestampNtz"},
       writer_features |-> {"timestampNtz", "appendOnly"}] }

DefaultProtocol ==
    [min_reader_version |-> 1, min_writer_version |-> 2,
     reader_features |-> {}, writer_features |-> {}]

InitialMetadata ==
    [configuration |-> (<<"delta", "appendOnly">> :> Some(<<"false">>)),
     schema |-> "id,value,modified",
     partition_columns |-> <<"modified">>]

\* The state of a table that has not been loaded or created: no metadata.
UninitializedState ==
    [version |-> -1, metadata |-> None, protocol |-> DefaultProtocol,
     files |-> <<>>]

RemoveFile(files, id) == SelectSeq(files, LAMBDA f : f.id # id)

\* DeltaTableState::process_action
ProcessAction(s, a) ==
    CASE a.type = "Metadata" ->
           [s EXCEPT !.metadata = Some(TableMetaDataFrom(a.metadata))]
      [] a.type = "Protocol" -> [s EXCEPT !.protocol = a.protocol]
      [] a.type = "Add" ->
           [s EXCEPT !.files = Append(@, [id |-> a.id, batch |-> a.batch])]
      [] a.type = "Remove" -> [s EXCEPT !.files = RemoveFile(@, a.id)]
      [] OTHER -> s

RECURSIVE ProcessActions(_, _)
ProcessActions(s, actions) ==
    IF actions = <<>> THEN s
    ELSE ProcessActions(ProcessAction(s, Head(actions)), Tail(actions))

\* The snapshot a reader obtains by replaying the log up to version v;
\* version v is the entry log[v + 1].
RECURSIVE Replay(_, _)
Replay(l, v) ==
    IF v < 0 THEN UninitializedState
    ELSE [ProcessActions(Replay(l, v - 1), l[v + 1]) EXCEPT !.version = v]

HeadVersion(l) == Len(l) - 1

\* Constraints registered in a table metadata, as the texts of their
\* expressions.
ConstraintPrefix == "delta.constraints"
RegisteredTexts(metadata) ==
    { Unwrap(metadata.configuration[k]) :
        k \in { kk \in DOMAIN metadata.configuration :
                  kk[1] = ConstraintPrefix } }

(* ------------------------------ state ---------------------------------- *)
VARIABLES
    log,        \* the transaction log: log[v + 1] is the action list of version v
    pc,         \* pc[i]: where operation instance i stands in into_future
    name,       \* ConstraintBuilder.name
    expr,       \* ConstraintBuilder.expr
    snapshot,   \* ConstraintBuilder.snapshot
    locals,     \* the locals name, expr, metadata of into_future
    plan,       \* the partitions of the scan plan, each a sequence of batches
    tasks,      \* the spawned partition tasks, in spawn order
    actions,    \* the action list handed to commit
    result,     \* the Output of the future
    hist,       \* history of the invocation (base snapshot, scan, commit calls,
                \* first task to fail)
    runs,       \* number of invocations started so far
    faults,     \* number of failures of the environment so far
    clients,    \* the operation instances in use
    written     \* the outcome of the last write of another writer

vars == <<log, pc, name, expr, snapshot, locals, plan, tasks, actions,
          result, hist, runs, faults, clients, written>>

NoLocals == [name |-> "", expr |-> <<>>, metadata |-> None]
NoResult == [status |-> "none", err |-> "", version |-> -1]
Ok(v) == [status |-> "ok", err |-> "", version |-> v]
Err(e) == [status |-> "err", err |-> e, version |-> -1]
\* failed is the partition of the task that was the first, in time, to fail
\* (0 when none has).
NewHist(s) == [base |-> s, scanned |-> <<>>, commits |-> <<>>, failed |-> 0]
NoWrite == [status |-> "none", batch |-> <<>>]

Terminal(i) == pc[i] \in {"done", "failed"}

InitialBatch == <<1>>

\* Version 0 of the table: created and written once.
InitialLog(p) ==
    << << [type |-> "Protocol", protocol |-> p],
          [type |-> "Metadata", metadata |-> MetadataTryFrom(InitialMetadata)],
          [type |-> "Add", id |-> 0, batch |-> InitialBatch] >> >>

InitOps ==
    /\ pc = [i \in Ops |-> "idle"]
    /\ name = [i \in Ops |-> None]
    /\ expr = [i \in Ops |-> None]
    /\ snapshot = [i \in Ops |-> UninitializedState]
    /\ locals = [i \in Ops |-> NoLocals]
    /\ plan = [i \in Ops |-> <<>>]
    /\ tasks = [i \in Ops |-> <<>>]
    /\ actions = [i \in Ops |-> <<>>]
    /\ result = [i \in Ops |-> NoResult]
    /\ hist = [i \in Ops |-> NewHist(UninitializedState)]
    /\ written = NoWrite

\* One client invokes the operation, up to MaxRuns times, next to the other
\* writers of the table.
Init ==
    /\ \E p \in InitialProtocols : log = InitialLog(p)
    /\ InitOps
    /\ runs = 0
    /\ faults = 0
    /\ clients = {"opA"}

\* Two clients invoke the operation once each, concurrently; the environment
\* does not fail and nobody else writes.
InitRace ==
    /\ log = InitialLog(DefaultProtocol)
    /\ InitOps
    /\ runs = MaxRuns - Cardinality(Ops)
    /\ faults = MaxFaults
    /\ clients = Ops

\* The environment fails (storage, engine, a panicking task).
Fault ==
    /\ faults < MaxFaults
    /\ faults' = faults + 1

\* A commit conflict sends the invocation back to the planning stage.
Return_RetryConflict(i, r) ==
    IF r.err = "CommitConflict"
    THEN /\ pc' = [pc EXCEPT ![i] = "plan"]
         /\ actions' = [actions EXCEPT ![i] = <<>>]
         /\ UNCHANGED <<result, locals, plan>>
    ELSE /\ pc' = [pc EXCEPT ![i] = IF r.status = "ok" THEN "done" ELSE "failed"]
         /\ result' = [result EXCEPT ![i] = r]
         /\ locals' = [locals EXCEPT ![i] = NoLocals]
         /\ plan' = [plan EXCEPT ![i] = <<>>]
         /\ actions' = [actions EXCEPT ![i] = <<>>]

\* The future returns r: its locals are dropped.
Return(i, r) ==
    /\ pc' = [pc EXCEPT ![i] = IF r.status = "ok" THEN "done" ELSE "failed"]
    /\ result' = [result EXCEPT ![i] = r]
    /\ locals' = [locals EXCEPT ![i] = NoLocals]
    /\ plan' = [plan EXCEPT ![i] = <<>>]
    /\ actions' = [actions EXCEPT ![i] = <<>>]

(* --------------------------- the builder ------------------------------- *)
\* ConstraintBuilder::new: the caller hands over an open snapshot: the table
\* as loaded from the log, the table returned by an earlier invocation, or a
\* table that was never loaded.
NewBuilder(i) ==
    /\ i \in clients
    /\ pc[i] \in {"idle", "done", "failed"}
    /\ clients # {i} => pc[i] = "idle"
    /\ runs < MaxRuns
    /\ \E s \in {Replay(log, HeadVersion(log)), UninitializedState}
                  \cup (IF pc[i] = "done" THEN {snapshot[i]} ELSE {}) :
         /\ snapshot' = [snapshot EXCEPT ![i] = s]
         /\ hist' = [hist EXCEPT ![i] = NewHist(s)]
    /\ pc' = [pc EXCEPT ![i] = "builder"]
    /\ name' = [name EXCEPT ![i] = None]
    /\ expr' = [expr EXCEPT ![i] = None]
    /\ tasks' = [tasks EXCEPT ![i] = <<>>]
    /\ result' = [result EXCEPT ![i] = NoResult]
    /\ runs' = runs + 1
    /\ UNCHANGED <<log, locals, plan, actions, faults, clients, written>>

\* ConstraintBuilder::with_constraint
with_constraint(i) ==
    /\ pc[i] = "builder"
    /\ \E column \in Names, expression \in Expressions :
         /\ name' = [name EXCEPT ![i] = Some(column)]
         /\ expr' = [expr EXCEPT ![i] = Some(expression)]
    /\ UNCHANGED <<log, pc, snapshot, locals, plan, tasks, actions, result,
                   hist, runs, faults, clients, written>>

(* ----------------- into_future: up to the first await ------------------ *)
\* The entry is stored under the prefix "constraint".
configuration_key_OtherPrefix(n) == <<"constraint", n>>

\* format!("delta.constraints.{}", name)
configuration_key(n) == <<"delta.constraints", n>>

\* match this.expr: the text of the expression
ExprText(e) == IF e.kind = "String" THEN e.s ELSE ExprToString(e.e)

\* The same without the check of lines 95-100.
ExecuteOutcome_NoDuplicateCheck(n, e, s) ==
    IF n = None THEN [err |-> "NoName", locals |-> NoLocals]
    ELSE IF e = None THEN [err |-> "NoExpression", locals |-> NoLocals]
    ELSE IF s.metadata = None THEN [err |-> "NoMetadata", locals |-> NoLocals]
    ELSE [err |-> "",
          locals |-> [name |-> Unwrap(n), expr |-> ExprText(Unwrap(e)),
                      metadata |-> s.metadata]]

\* The same with the metadata looked up before the name and the expression.
ExecuteOutcome_MetadataFirst(n, e, s) ==
    IF s.metadata = None THEN [err |-> "NoMetadata", locals |-> NoLocals]
    ELSE IF n = None THEN [err |-> "NoName", locals |-> NoLocals]
    ELSE IF e = None THEN [err |-> "NoExpression", locals |-> NoLocals]
    ELSE IF configuration_key(Unwrap(n))
              \in DOMAIN Unwrap(s.metadata).configuration
         THEN [err |-> "AlreadyExists", locals |-> NoLocals]
    ELSE [err |-> "",
          locals |-> [name |-> Unwrap(n), expr |-> ExprText(Unwrap(e)),
                      metadata |-> s.metadata]]

\* Lines 74-100: the early returns before the scan.  err = "" when the code
\* goes on, with the locals it has bound.
ExecuteOutcome(n, e, s) ==
    IF n = None THEN [err |-> "NoName", locals |-> NoLocals]
    ELSE IF e = None THEN [err |-> "NoExpression", locals |-> NoLocals]
    ELSE IF s.metadata = None THEN [err |-> "NoMetadata", locals |-> NoLocals]
    ELSE IF configuration_key(Unwrap(n))
              \in DOMAIN Unwrap(s.metadata).configuration
         THEN [err |-> "AlreadyExists", locals |-> NoLocals]
    ELSE [err |-> "",
          locals |-> [name |-> Unwrap(n), expr |-> ExprText(Unwrap(e)),
                      metadata |-> s.metadata]]

Execute(i) ==
    /\ pc[i] = "builder"
    /\ LET out == ExecuteOutcome(name[i], expr[i], snapshot[i]) IN
         IF out.err # ""
         THEN Return(i, Err(out.err))
         ELSE /\ pc' = [pc EXCEPT ![i] = "scan"]
              /\ locals' = [locals EXCEPT ![i] = out.locals]
              /\ UNCHANGED <<result, plan, actions>>
    /\ UNCHANGED <<log, name, expr, snapshot, tasks, hist, runs, faults,
                   clients, written>>

(* ----------------------------- the scan -------------------------------- *)
\* The scan plan over the live files of a snapshot: every file lies in
\* exactly one of the count partitions, a file being read as one batch.
RECURSIVE PartitionBatches(_, _, _, _)
PartitionBatches(files, count, p, j) ==
    IF j > Len(files) THEN <<>>
    ELSE (IF (j - 1) % count = p - 1 THEN <<files[j].batch>> ELSE <<>>)
         \o PartitionBatches(files, count, p, j + 1)

ScanPlan(s, count) ==
    [p \in 1..count |-> PartitionBatches(s.files, count, p, 1)]

\* Line 109: DeltaDataChecker::new_with_constraints(vec![Constraint::new("*", &expr)])
NewChecker(text) == text

\* Lines 102-114: DeltaScanBuilder::new(&this.snapshot, ..).build().await?
BuildScan(i) ==
    /\ pc[i] = "scan"
    /\ \/ /\ Fault
          /\ Return(i, Err("ScanBuild"))
          /\ UNCHANGED hist
       \/ /\ \E count \in 1..MaxParts :
               plan' = [plan EXCEPT ![i] = ScanPlan(snapshot[i], count)]
          /\ hist' = [hist EXCEPT ![i].scanned =
                         Append(@, [version |-> snapshot[i].version,
                                    checker |-> NewChecker(locals[i].expr)])]
          /\ pc' = [pc EXCEPT ![i] = "spawn"]
          /\ UNCHANGED <<result, locals, actions, faults>>
    /\ UNCHANGED <<log, name, expr, snapshot, tasks, runs, clients, written>>

(* ------------------------ the partition tasks -------------------------- *)
\* The task is spawned on an empty stream instead of the partition's.
NewTask_EmptyStream(stream, checker) ==
    [status |-> "running", stream |-> <<>>, checker |-> checker, err |-> ""]

\* A task owns the stream of its partition (stream is what is left of it)
\* and its clone of the checker.
NewTask(stream, checker) ==
    [status |-> "running", stream |-> stream, checker |-> checker, err |-> ""]

\* The task returns: rest is what it has not pulled from its stream.
EndTask(status, err, rest) ==
    [status |-> status, stream |-> rest, checker |-> <<>>, err |-> err]

\* Lines 116-131, one iteration of the loop: execute partition p and spawn
\* the task that checks its stream.  An error of execute returns from the
\* operation; the tasks spawned so far keep running.
SpawnTask(i) ==
    /\ pc[i] = "spawn"
    /\ Len(tasks[i]) < Len(plan[i])
    /\ \/ /\ Fault
          /\ Return(i, Err("Execute"))
          /\ UNCHANGED tasks
       \/ /\ tasks' = [tasks EXCEPT ![i] =
                         Append(@, NewTask(plan[i][Len(@) + 1],
                                            NewChecker(locals[i].expr)))]
          /\ UNCHANGED <<pc, result, locals, plan, actions, faults>>
    /\ UNCHANGED <<log, name, expr, snapshot, hist, runs, clients, written>>

\* Line 132: the loop is over, the operation awaits join_all(tasks).  The
\* plan is not read any more.
AwaitTasks(i) ==
    /\ pc[i] = "spawn"
    /\ Len(tasks[i]) = Len(plan[i])
    /\ pc' = [pc EXCEPT ![i] = "join"]
    /\ plan' = [plan EXCEPT ![i] = <<>>]
    /\ UNCHANGED <<log, name, expr, snapshot, locals, tasks, actions,
                   result, hist, runs, faults, clients, written>>

\* The task goes on to the next batch after a batch that fails the check.
TaskStep_Continue(i, p) ==
    /\ p \in 1..Len(tasks[i])
    /\ tasks[i][p].status = "running"
    /\ LET t == tasks[i][p] IN
         \/ /\ t.stream = <<>>
            /\ tasks' = [tasks EXCEPT ![i][p] = EndTask("ok", "", <<>>)]
            /\ UNCHANGED faults
         \/ /\ t.stream # <<>>
            /\ Fault
            /\ \/ tasks' = [tasks EXCEPT ![i][p] =
                                EndTask("err", "BatchRead", Tail(t.stream))]
               \/ tasks' = [tasks EXCEPT ![i][p] =
                                EndTask("panicked", "", Tail(t.stream))]
         \/ /\ t.stream # <<>>
            /\ tasks' = [tasks EXCEPT ![i][p] =
                            [t EXCEPT !.stream = Tail(t.stream)]]
            /\ UNCHANGED faults
    /\ hist' = [hist EXCEPT ![i].failed =
                   IF @ = 0 /\ tasks'[i][p].status \in {"err", "panicked"}
                   THEN p ELSE @]
    /\ UNCHANGED <<log, pc, name, expr, snapshot, locals, plan, actions,
                   result, runs, clients, written>>

\* Lines 124-128, one iteration of the task of partition p: pull the next
\* batch; the stream ends (Ok), the batch is an error, the batch fails the
\* check, or the batch passes.  A task may also panic.
TaskStep(i, p) ==
    /\ p \in 1..Len(tasks[i])
    /\ tasks[i][p].status = "running"
    /\ LET t == tasks[i][p] IN
         \/ /\ t.stream = <<>>
            /\ tasks' = [tasks EXCEPT ![i][p] = EndTask("ok", "", <<>>)]
            /\ UNCHANGED faults
         \/ /\ t.stream # <<>>
            /\ Fault
            /\ \/ tasks' = [tasks EXCEPT ![i][p] =
                                EndTask("err", "BatchRead", Tail(t.stream))]
               \/ tasks' = [tasks EXCEPT ![i][p] =
                                EndTask("panicked", "", Tail(t.stream))]
         \/ /\ t.stream # <<>>
            /\ tasks' = [tasks EXCEPT ![i][p] =
                  IF check_batch(t.checker, Head(t.stream))
                  THEN [t EXCEPT !.stream = Tail(t.stream)]
                  ELSE EndTask("err", "InvalidData", Tail(t.stream))]
            /\ UNCHANGED faults
    /\ hist' = [hist EXCEPT ![i].failed =
                   IF @ = 0 /\ tasks'[i][p].status \in {"err", "panicked"}
                   THEN p ELSE @]
    /\ UNCHANGED <<log, pc, name, expr, snapshot, locals, plan, actions,
                   result, runs, clients, written>>

\* Lines 132-138: the results of join_all come in the order of the handles.
\* The first collect stops at the first JoinError, the second at the first
\* error a task returned.
RECURSIVE FirstWith(_, _, _)
FirstWith(ts, status, p) ==
    IF p > Len(ts) THEN 0
    ELSE IF ts[p].status = status THEN p
    ELSE FirstWith(ts, status, p + 1)

\* The second collect keeps the last error of the tasks instead of the first.
JoinOutcome_LastError(ts) ==
    IF FirstWith(ts, "panicked", 1) # 0 THEN "Join"
    ELSE IF FirstWith(ts, "err", 1) # 0
         THEN ts[CHOOSE p \in 1..Len(ts) :
                    /\ ts[p].status = "err"
                    /\ \A q \in (p + 1)..Len(ts) : ts[q].status # "err"].err
    ELSE ""

\* join_all without the second collect: the errors the tasks return are lost.
JoinOutcome_JoinErrorsOnly(ts) ==
    IF FirstWith(ts, "panicked", 1) # 0 THEN "Join" ELSE ""

JoinOutcome(ts) ==
    IF FirstWith(ts, "panicked", 1) # 0 THEN "Join"
    ELSE IF FirstWith(ts, "err", 1) # 0
         THEN ts[FirstWith(ts, "err", 1)].err
    ELSE ""

JoinAll(i) ==
    /\ pc[i] = "join"
    /\ \A p \in 1..Len(tasks[i]) : tasks[i][p].status # "running"
    /\ IF JoinOutcome(tasks[i]) # ""
       THEN Return(i, Err(JoinOutcome(tasks[i])))
       ELSE /\ pc' = [pc EXCEPT ![i] = "plan"]
            /\ UNCHANGED <<result, locals, plan, actions>>
    /\ tasks' = [tasks EXCEPT ![i] = <<>>]
    /\ UNCHANGED <<log, name, expr, snapshot, hist, runs, faults, clients, written>>

(* ------------------- new metadata, protocol, actions ------------------- *)
\* The configuration is replaced by the new entry alone.
InsertConstraint_OnlyNew(metadata, n, text) ==
    [metadata EXCEPT !.configuration =
        [k \in {configuration_key(n)} |-> Some(text)]]

\* The new entry is dropped: the metadata goes out as it came in.
InsertConstraint_NoInsert(metadata, n, text) == metadata

\* Lines 143-145: metadata.configuration.insert(key, Some(expr))
InsertConstraint(metadata, n, text) ==
    [metadata EXCEPT !.configuration =
        [k \in DOMAIN @ \cup {configuration_key(n)} |->
            IF k = configuration_key(n) THEN Some(text) ELSE @[k]]]

\* The versions are set to 1 and 3 instead of raised to them.
NewProtocol_Fixed(old_protocol) ==
    [min_reader_version |-> 1,
     min_writer_version |-> 3,
     reader_features |-> old_protocol.reader_features,
     writer_features |-> old_protocol.writer_features]

\* Lines 147-161
NewProtocol(old_protocol) ==
    [min_reader_version |->
        IF old_protocol.min_reader_version > 1
        THEN old_protocol.min_reader_version ELSE 1,
     min_writer_version |->
        IF old_protocol.min_writer_version > 3
        THEN old_protocol.min_writer_version ELSE 3,
     reader_features |-> old_protocol.reader_features,
     writer_features |-> old_protocol.writer_features]

\* read_version taken from the head of the log instead of the snapshot
NewCommitInfo_HeadVersion(n, text, s) ==
    [type |-> "CommitInfo",
     operation |-> "ADD CONSTRAINT",
     operation_parameters |-> [name |-> n, expr |-> text],
     read_version |-> HeadVersion(log),
     isolation_level |-> "Serializable",
     is_blind_append |-> FALSE]

\* Lines 163-181 (the timestamp is left out)
NewCommitInfo(n, text, s) ==
    [type |-> "CommitInfo",
     operation |-> "ADD CONSTRAINT",
     operation_parameters |-> [name |-> n, expr |-> text],
     read_version |-> s.version,
     isolation_level |-> "Serializable",
     is_blind_append |-> FALSE]

\* The action list with the CommitInfo action last
NewActions_InfoLast(l, s) ==
    << [type |-> "Metadata",
        metadata |->
          MetadataTryFrom(InsertConstraint(Unwrap(l.metadata), l.name, l.expr))],
       [type |-> "Protocol", protocol |-> NewProtocol(s.protocol)],
       NewCommitInfo(l.name, l.expr, s) >>

\* The action list without the Protocol action
NewActions_NoProtocol(l, s) ==
    << NewCommitInfo(l.name, l.expr, s),
       [type |-> "Metadata",
        metadata |->
          MetadataTryFrom(InsertConstraint(Unwrap(l.metadata), l.name, l.expr))] >>

\* Lines 183-187
NewActions(l, s) ==
    << NewCommitInfo(l.name, l.expr, s),
       [type |-> "Metadata",
        metadata |->
          MetadataTryFrom(InsertConstraint(Unwrap(l.metadata), l.name, l.expr))],
       [type |-> "Protocol", protocol |-> NewProtocol(s.protocol)] >>

\* Lines 143-187: Metadata::try_from may fail.
PlanCommit(i) ==
    /\ pc[i] = "plan"
    /\ \/ /\ Fault
          /\ Return(i, Err("MetadataSerialization"))
       \/ /\ actions' = [actions EXCEPT ![i] = NewActions(locals[i], snapshot[i])]
          /\ pc' = [pc EXCEPT ![i] = "commit"]
          /\ UNCHANGED <<result, locals, plan, faults>>
    /\ UNCHANGED <<log, name, expr, snapshot, tasks, hist, runs, clients, written>>

(* ------------------------------ commit --------------------------------- *)
\* The commit primitive of the log store.  A commit that was made after the
\* base snapshot conflicts with the new one when it changes the metadata or
\* the protocol, or when it adds data and the new commit is Serializable and
\* not a blind append; otherwise the new commit is appended after it.
HasAction(commit_actions, types) ==
    \E k \in 1..Len(commit_actions) : commit_actions[k].type \in types

ReadsWholeTable(commit_actions) ==
    \E k \in 1..Len(commit_actions) :
        /\ commit_actions[k].type = "CommitInfo"
        /\ commit_actions[k].isolation_level = "Serializable"
        /\ ~commit_actions[k].is_blind_append

CommitConflicts(l, commit_actions, base_snapshot) ==
    \E v \in (base_snapshot.version + 1)..HeadVersion(l) :
        \/ HasAction(l[v + 1], {"Metadata", "Protocol"})
        \/ HasAction(l[v + 1], {"Add"}) /\ ReadsWholeTable(commit_actions)

\* A snapshot reloaded from the log is handed to commit.
CommitBase_Head(i) == Replay(log, HeadVersion(log))

\* The base snapshot handed to commit (line 193)
CommitBase(i) == snapshot[i]

\* DeltaTableState::merge(from_actions(actions, version), true, true)
Merge(base, new_actions, version) ==
    [ProcessActions(base, new_actions) EXCEPT !.version = version]

\* The version reported is the one after the base version, whatever commit
\* returned.
ReturnAfterCommit_NextVersion(base_version, version) == Ok(base_version + 1)

\* A commit that landed later than base version + 1 is reported as a conflict.
ReturnAfterCommit_ExpectNext(base_version, version) ==
    IF version = base_version + 1 THEN Ok(version) ELSE Err("CommitConflict")

\* Lines 198-200: the result once the commit is in the log at version
ReturnAfterCommit(base_version, version) == Ok(version)

\* What the history keeps of a call of commit: version is the version it
\* appended, or -1.
CommitCall(i, version) ==
    [base_version |-> CommitBase(i).version,
     read_version |-> actions[i][1].read_version,
     head_before |-> HeadVersion(log),
     version |-> version]

\* Lines 189-200
Commit(i) ==
    /\ pc[i] = "commit"
    /\ \/ /\ Fault
          /\ Return(i, Err("CommitStorage"))
          /\ hist' = [hist EXCEPT ![i].commits = Append(@, CommitCall(i, -1))]
          /\ UNCHANGED <<log, snapshot>>
       \/ /\ CommitConflicts(log, actions[i], CommitBase(i))
          /\ Return(i, Err("CommitConflict"))
          /\ hist' = [hist EXCEPT ![i].commits = Append(@, CommitCall(i, -1))]
          /\ UNCHANGED <<log, snapshot, faults>>
       \/ /\ ~CommitConflicts(log, actions[i], CommitBase(i))
          /\ HeadVersion(log) < MaxVersion
          /\ log' = Append(log, actions[i])
          /\ LET version == HeadVersion(log) + 1 IN
               /\ hist' = [hist EXCEPT ![i].commits =
                              Append(@, CommitCall(i, version))]
               /\ \/ /\ Fault
                     /\ Return(i, Err("FromActions"))
                     /\ UNCHANGED snapshot
                  \/ /\ snapshot' = [snapshot EXCEPT ![i] =
                                       Merge(@, actions[i], version)]
                     /\ Return(i, ReturnAfterCommit(CommitBase(i).version,
                                                    version))
                     /\ UNCHANGED faults
    /\ UNCHANGED <<name, expr, tasks, runs, clients, written>>

(* --------------------------- other writers ----------------------------- *)
IsForeign(commit_actions) ==
    \E k \in 1..Len(commit_actions) :
        /\ commit_actions[k].type = "CommitInfo"
        /\ commit_actions[k].operation \in {"WRITE", "DELETE"}

ForeignCommits(l) == Cardinality({v \in 1..Len(l) : IsForeign(l[v])})

\* A write of one batch by another writer: the batch is checked against the
\* constraints registered at the head of the log; it is appended when it
\* passes, and the write fails when it does not.
WriteData(batch) ==
    /\ LET head == Replay(log, HeadVersion(log)) IN
         IF \A text \in RegisteredTexts(Unwrap(head.metadata)) :
               check_batch(text, batch)
         THEN /\ HeadVersion(log) < MaxVersion
              /\ ForeignCommits(log) < MaxWrites
              /\ log' = Append(log,
                    << [type |-> "CommitInfo", operation |-> "WRITE",
                        operation_parameters |-> [name |-> "", expr |-> <<>>],
                        read_version |-> head.version,
                        isolation_level |-> "Serializable",
                        is_blind_append |-> TRUE],
                       [type |-> "Add", id |-> Len(log), batch |-> batch] >>)
              /\ written' = [status |-> "ok", batch |-> batch]
         ELSE /\ log' = log
              /\ written' = [status |-> "err", batch |-> batch]
    /\ UNCHANGED <<pc, name, expr, snapshot, locals, plan, tasks, actions,
                   result, hist, runs, faults, clients>>

\* A delete by another writer: it removes one live file and adds none.
DeleteData ==
    /\ HeadVersion(log) < MaxVersion
    /\ ForeignCommits(log) < MaxWrites
    /\ LET head == Replay(log, HeadVersion(log)) IN
         \E k \in 1..Len(head.files) :
            log' = Append(log,
               << [type |-> "CommitInfo", operation |-> "DELETE",
                   operation_parameters |-> [name |-> "", expr |-> <<>>],
                   read_version |-> head.version,
                   isolation_level |-> "Serializable",
                   is_blind_append |-> FALSE],
                  [type |-> "Remove", id |-> head.files[k].id] >>)
    /\ UNCHANGED <<pc, name, expr, snapshot, locals, plan, tasks, actions,
                   result, hist, runs, faults, clients, written>>

\* The steps of the operation instances
NextOp ==
    \/ \E i \in Ops : NewBuilder(i)
    \/ \E i \in Ops : with_constraint(i)
    \/ \E i \in Ops : Execute(i)
    \/ \E i \in Ops : BuildScan(i)
    \/ \E i \in Ops : SpawnTask(i)
    \/ \E i \in Ops : AwaitTasks(i)
    \/ \E i \in Ops, p \in 1..MaxParts : TaskStep(i, p)
    \/ \E i \in Ops : JoinAll(i)
    \/ \E i \in Ops : PlanCommit(i)
    \/ \E i \in Ops : Commit(i)

Next ==
    \/ NextOp
    \/ \E batch \in Batches : WriteData(batch)
    \/ DeleteData

Spec == Init /\ [][Next]_vars

SpecRace == InitRace /\ [][NextOp]_vars

(* ======================================================================= *)
(* Properties                                                              *)
(* ======================================================================= *)
\* The error taxonomy of the specification, by the place that raises it.
ConfigurationError == {"NoName", "NoExpression"}
ValidationError == {"ScanBuild", "Execute", "BatchRead", "InvalidData", "Join"}
ConflictError == {"AlreadyExists", "CommitConflict"}

Configured(i) == IsSome(name[i]) /\ IsSome(expr[i])
Text(i) == ExprText(Unwrap(expr[i]))
Key(i) == configuration_key(Unwrap(name[i]))

\* Some row of the snapshot fails the predicate
HasViolation(s, text) ==
    \E k \in 1..Len(s.files) : ~check_batch(text, s.files[k].batch)

Registered(s, key) ==
    IsSome(s.metadata) /\ key \in DOMAIN Unwrap(s.metadata).configuration

\* The future of instance i returns in this step
Returns(i) == ~Terminal(i) /\ pc'[i] \in {"done", "failed"}

\* C1 as stated: whenever a row of the base snapshot fails P, the operation
\* fails with a ValidationError, whatever the name, without having committed.
C1_Soundness_AnyName ==
    \A i \in Ops :
        (Terminal(i) /\ Configured(i) /\ HasViolation(hist[i].base, Text(i)))
        => /\ result[i].status = "err"
           /\ result[i].err \in ValidationError
           /\ hist[i].commits = <<>>

\* C1, amended: when a row of the base snapshot fails P, the operation
\* returns an error without ever calling commit and without changing the
\* log or its snapshot; the error is a validation error (predicate
\* violation, scan or read failure, task failure) when the name is not yet
\* registered, and the "already exists" error when it is.
C1_Soundness ==
    [][\A i \in Ops :
        (Returns(i) /\ Configured(i) /\ HasViolation(hist[i].base, Text(i)))
        => /\ result'[i].status = "err"
           /\ result'[i].err \in
                (IF Registered(hist[i].base, Key(i))
                 THEN {"AlreadyExists"} ELSE ValidationError)
           /\ hist'[i].commits = <<>>
           /\ log' = log
           /\ snapshot'[i] = hist[i].base]_vars

\* Two partition tasks ran, one found the violating row, and the operation
\* failed on it.
C1_Witness ==
    \E i \in Ops :
        /\ pc[i] = "failed" /\ Configured(i)
        /\ HasViolation(hist[i].base, Text(i))
        /\ Len(hist[i].base.files) = 2
        /\ result[i].err = "InvalidData"
        /\ hist[i].scanned # <<>>

\* Failures of the storage, the engine, a task or the log store, and
\* conflicts with other writers
EnvironmentError ==
    {"ScanBuild", "Execute", "BatchRead", "Join", "MetadataSerialization",
     "CommitStorage", "CommitConflict", "FromActions"}

LastCommit(i) == hist[i].commits[Len(hist[i].commits)]

\* The Metadata action of a commit
CommittedMetadata(commit_actions) ==
    (CHOOSE a \in {commit_actions[k] : k \in 1..Len(commit_actions)} :
        a.type = "Metadata").metadata

HasEntry(configuration, key, text) ==
    key \in DOMAIN configuration /\ configuration[key] = Some(text)

\* C2 as stated, read for a loaded table and for runs in which nothing of
\* the environment fails and no commit conflicts: if every row of the base
\* snapshot satisfies P, the operation succeeds, the resulting version is
\* the base version + 1 and configuration["constraint.<name>"] is P's text.
C2_Completeness_AsStated ==
    \A i \in Ops :
        (/\ Terminal(i) /\ Configured(i)
         /\ hist[i].base.version >= 0
         /\ ~HasViolation(hist[i].base, Text(i))
         /\ result[i].err \notin EnvironmentError)
        => /\ result[i].status = "ok"
           /\ result[i].version = hist[i].base.version + 1
           /\ HasEntry(Unwrap(snapshot[i].metadata).configuration,
                       <<"constraint", Unwrap(name[i])>>, Text(i))

\* C2, amended: if every row of the base snapshot satisfies P, the base
\* snapshot has metadata in which the name is not yet registered, and
\* nothing of the environment fails and the commit does not conflict, the
\* operation succeeds.  Whenever it succeeds, the resulting version is the
\* one commit returned, the head of the log at the commit + 1 (the base
\* version + 1 when no other commit came in between), and both the
\* committed Metadata action and the returned snapshot hold
\* configuration["delta.constraints.<name>"] = the text that was validated.
C2_Completeness ==
    \A i \in Ops :
        (Terminal(i) /\ Configured(i) /\ ~HasViolation(hist[i].base, Text(i)))
        => /\ (/\ IsSome(hist[i].base.metadata)
               /\ ~Registered(hist[i].base, Key(i))
               /\ result[i].err \notin EnvironmentError)
              => result[i].status = "ok"
           /\ result[i].status = "ok"
              => /\ result[i].version = LastCommit(i).version
                 /\ result[i].version = LastCommit(i).head_before + 1
                 /\ result[i].version >= hist[i].base.version + 1
                 /\ LastCommit(i).head_before = hist[i].base.version
                    => result[i].version = hist[i].base.version + 1
                 /\ snapshot[i].version = result[i].version
                 /\ HasEntry(Unwrap(snapshot[i].metadata).configuration,
                             Key(i), Text(i))
                 /\ HasEntry(CommittedMetadata(log[result[i].version + 1])
                                .configuration, Key(i), Text(i))
                 /\ hist[i].scanned = <<[version |-> hist[i].base.version,
                                         checker |-> Text(i)]>>

\* A parsed expression was validated on two files and registered under its
\* printed text.
C2_Witness ==
    \E i \in Ops :
        /\ pc[i] = "done" /\ Configured(i)
        /\ Unwrap(expr[i]).kind = "DataFusion"
        /\ Len(hist[i].base.files) = 2
        /\ ~HasViolation(hist[i].base, Text(i))
        /\ result[i].status = "ok"

\* C3: when the metadata of the builder's snapshot already holds the entry
\* of the name, executing with that name and any expression returns the
\* "already exists" error in its first step, and neither the log nor the
\* snapshot changes; no scan and no commit is made.
C3_Uniqueness ==
    [][\A i \in Ops :
        (/\ pc[i] = "builder" /\ pc'[i] # "builder" /\ Configured(i)
         /\ Registered(snapshot[i], Key(i)))
        => /\ pc'[i] = "failed"
           /\ result'[i] = Err("AlreadyExists")
           /\ result'[i].err \in ConflictError
           /\ log' = log
           /\ snapshot'[i] = snapshot[i]
           /\ hist'[i].scanned = <<>> /\ hist'[i].commits = <<>>]_vars

\* After an earlier successful call, a call with the same name and another
\* expression has failed.
C3_Witness ==
    \E i \in Ops :
        /\ pc[i] = "failed" /\ Configured(i)
        /\ result[i].err = "AlreadyExists"
        /\ Registered(hist[i].base, Key(i))
        /\ ~HasEntry(Unwrap(hist[i].base.metadata).configuration,
                     Key(i), Text(i))

\* The failures C4 lists: every error the operation returns, but for the
\* error of from_actions (line 199), which comes after the commit.
ListedFailure ==
    ConfigurationError
    \cup {"NoMetadata", "AlreadyExists", "ScanBuild", "Execute", "BatchRead",
          "InvalidData", "Join", "MetadataSerialization", "CommitStorage",
          "CommitConflict"}

AddsViolation(commit_actions, text) ==
    \E k \in 1..Len(commit_actions) :
        /\ commit_actions[k].type = "Add"
        /\ ~check_batch(text, commit_actions[k].batch)

\* The CommitInfo actions of add constraint in a commit entry
AddConstraintInfos(commit_actions) ==
    { a \in {commit_actions[k] : k \in 1..Len(commit_actions)} :
        a.type = "CommitInfo" /\ a.operation = "ADD CONSTRAINT" }

\* C5: a call of commit made when another writer has, since the base
\* snapshot, committed a batch with a row that fails P, fails (with the
\* conflict, or with a storage failure); and at every version from the one
\* that registers a constraint on, every row of the table satisfies its
\* predicate.
C5_ValidatedData ==
    /\ \A i \in Ops :
          (/\ Terminal(i) /\ Configured(i) /\ hist[i].commits # <<>>
           /\ \E v \in (hist[i].base.version + 1)..LastCommit(i).head_before :
                 AddsViolation(log[v + 1], Text(i)))
          => result[i].err \in {"CommitConflict", "CommitStorage"}
    /\ \A v \in 0..HeadVersion(log) :
          \A a \in AddConstraintInfos(log[v + 1]) :
             \A w \in v..HeadVersion(log) :
                ~HasViolation(Replay(log, w), a.operation_parameters.expr)

\* Validation passed on the base snapshot, another writer then committed a
\* violating row, and the commit failed on the conflict.
C5_Witness ==
    \E i \in Ops :
        /\ pc[i] = "failed" /\ Configured(i)
        /\ result[i].err = "CommitConflict"
        /\ ~HasViolation(hist[i].base, Text(i))
        /\ \E v \in (hist[i].base.version + 1)..HeadVersion(log) :
              AddsViolation(log[v + 1], Text(i))

\* The versions whose commit registers the name
Registrations(l, n) ==
    { v \in 0..HeadVersion(l) :
        \E a \in AddConstraintInfos(l[v + 1]) :
            a.operation_parameters.name = n }

\* C6: the log never holds two commits registering the same name; and of
\* two operations with the same name that started from the same base
\* version and both called commit, at most one succeeded, the other having
\* failed with the conflict.
C6_SameNameRace ==
    /\ \A n \in Names : Cardinality(Registrations(log, n)) <= 1
    /\ \A i, j \in Ops :
          (/\ i # j /\ Terminal(i) /\ Terminal(j)
           /\ Configured(i) /\ Configured(j) /\ name[i] = name[j]
           /\ hist[i].base.version = hist[j].base.version
           /\ hist[i].commits # <<>> /\ hist[j].commits # <<>>)
          => /\ ~(result[i].status = "ok" /\ result[j].status = "ok")
             /\ result[i].status = "ok" => result[j] = Err("CommitConflict")

\* Both operations validated the same base version for the same name with
\* different expressions; one committed, the other got the conflict.
C6_Witness ==
    \E i, j \in Ops :
        /\ Terminal(i) /\ Terminal(j) /\ Configured(i) /\ Configured(j)
        /\ name[i] = name[j] /\ expr[i] # expr[j]
        /\ hist[i].base.version = hist[j].base.version
        /\ result[i].status = "ok"
        /\ result[j].err = "CommitConflict"

IsAddConstraint(commit_actions) == AddConstraintInfos(commit_actions) # {}

CommittedProtocol(commit_actions) ==
    (CHOOSE a \in {commit_actions[k] : k \in 1..Len(commit_actions)} :
        a.type = "Protocol").protocol

HasConstraint(s) ==
    /\ IsSome(s.metadata)
    /\ \E k \in DOMAIN Unwrap(s.metadata).configuration :
          k[1] = ConstraintPrefix

Supports(protocol) ==
    protocol.min_reader_version >= 1 /\ protocol.min_writer_version >= 3

\* C7: a reader of any version of the log that sees a constraint in the
\* metadata sees a protocol with min_reader_version >= 1 and
\* min_writer_version >= 3; and every commit of the operation holds both the
\* Metadata action with the entry of its constraint and the Protocol action
\* with these versions, so that the version it creates shows both.
C7_NoPartialVisibility ==
    \A v \in 0..HeadVersion(log) :
        /\ HasConstraint(Replay(log, v)) => Supports(Replay(log, v).protocol)
        /\ \A a \in AddConstraintInfos(log[v + 1]) :
              /\ HasAction(log[v + 1], {"Metadata"})
              /\ HasAction(log[v + 1], {"Protocol"})
              /\ configuration_key(a.operation_parameters.name)
                    \in DOMAIN CommittedMetadata(log[v + 1]).configuration
              /\ Supports(CommittedProtocol(log[v + 1]))
              /\ Registered(Replay(log, v),
                            configuration_key(a.operation_parameters.name))
              /\ ~Registered(Replay(log, v - 1),
                             configuration_key(a.operation_parameters.name))

\* A table whose protocol did not support constraints got one: the version
\* before shows neither the constraint nor the bump, the version after both.
C7_Witness ==
    \E v \in 1..HeadVersion(log) :
        /\ IsAddConstraint(log[v + 1])
        /\ ~Supports(Replay(log, v - 1).protocol)
        /\ ~HasConstraint(Replay(log, v - 1))
        /\ HasConstraint(Replay(log, v))
        /\ Supports(Replay(log, v).protocol)

\* C8: in every commit of the operation the new protocol has
\* min_reader_version = max(old, 1) and min_writer_version = max(old, 3),
\* old being the protocol of the snapshot read, and the features of that
\* protocol; the versions are not below those of the version before.
C8_ProtocolBump ==
    \A v \in 1..HeadVersion(log) :
        \A a \in AddConstraintInfos(log[v + 1]) :
            LET old == Replay(log, a.read_version).protocol
                before == Replay(log, v - 1).protocol
                new == CommittedProtocol(log[v + 1])
            IN  /\ new.min_reader_version = Max(old.min_reader_version, 1)
                /\ new.min_writer_version = Max(old.min_writer_version, 3)
                /\ new.reader_features = old.reader_features
                /\ new.writer_features = old.writer_features
                /\ new.min_reader_version >= before.min_reader_version
                /\ new.min_writer_version >= before.min_writer_version
                /\ Replay(log, v).protocol = new

\* A table at reader version 3 and writer version 7 with features got a
\* constraint and kept them.
C8_Witness ==
    \E v \in 1..HeadVersion(log) :
        /\ IsAddConstraint(log[v + 1])
        /\ Replay(log, v - 1).protocol.min_writer_version > 3
        /\ Replay(log, v - 1).protocol.min_reader_version > 1
        /\ Replay(log, v).protocol.writer_features # {}

\* C9: an invocation whose name or expression is not set has built no scan,
\* spawned no task and called no commit, and once executed it has failed
\* with the error of the missing name or expression.
C9_ConfigurationPrecondition ==
    \A i \in Ops :
        (pc[i] # "idle" /\ ~Configured(i))
        => /\ hist[i].scanned = <<>>
           /\ tasks[i] = <<>>
           /\ plan[i] = <<>>
           /\ hist[i].commits = <<>>
           /\ pc[i] \in {"builder", "failed"}
           /\ pc[i] = "failed"
              => /\ result[i].status = "err"
                 /\ result[i].err \in ConfigurationError
                 /\ name[i] = None => result[i].err = "NoName"

\* The operation was executed on a loaded table without with_constraint.
C9_Witness ==
    \E i \in Ops :
        /\ pc[i] = "failed" /\ name[i] = None /\ expr[i] = None
        /\ hist[i].base.version >= 0
        /\ result[i] = Err("NoName")

\* C10: every call of commit carries in CommitInfo.read_version the version
\* of the base snapshot it passes, which is the one version the invocation
\* scanned; from the scan to the commit the builder's snapshot is the base
\* snapshot.
C10_ReadVersionBinding ==
    \A i \in Ops :
        /\ Len(hist[i].scanned) <= 1
        /\ \A k \in 1..Len(hist[i].commits) :
              /\ hist[i].commits[k].read_version
                    = hist[i].commits[k].base_version
              /\ hist[i].scanned
                    = <<[version |-> hist[i].commits[k].read_version,
                         checker |-> Text(i)]>>
              /\ hist[i].commits[k].read_version = hist[i].base.version
        /\ pc[i] \in {"scan", "spawn", "join", "plan", "commit"}
              => snapshot[i] = hist[i].base
        /\ pc[i] = "commit"
              => actions[i][1].read_version = hist[i].scanned[1].version
        /\ \A v \in 0..HeadVersion(log) :
              \A a \in AddConstraintInfos(log[v + 1]) : a.read_version < v

\* The log had moved on when commit was called with the scanned version.
C10_Witness ==
    \E i \in Ops :
        /\ hist[i].commits # <<>>
        /\ LastCommit(i).head_before > LastCommit(i).base_version
        /\ LastCommit(i).read_version = hist[i].scanned[1].version

\* The predicates the commits of the operation have registered, by the log
RegisteredByLog(l) ==
    { a.operation_parameters.expr :
        a \in UNION { AddConstraintInfos(l[k]) : k \in 1..Len(l) } }

IsWrite(commit_actions) ==
    \E k \in 1..Len(commit_actions) :
        /\ commit_actions[k].type = "CommitInfo"
        /\ commit_actions[k].operation = "WRITE"

\* A write of another writer returns in this step
WriteReturns ==
    \/ written' # written
    \/ Len(log') > Len(log) /\ IsWrite(log'[Len(log')])

\* C11: once commits of the operation have registered predicates, a write
\* of a batch with a row that fails one of them fails and leaves the log,
\* and so the table version, as it is; a write whose rows satisfy all of
\* them succeeds, and its batch is added in the next version.
C11_PostEnforcement ==
    [][WriteReturns =>
        IF \E P \in RegisteredByLog(log) : ~check_batch(P, written'.batch)
        THEN /\ written'.status = "err"
             /\ log' = log
        ELSE /\ written'.status = "ok"
             /\ HeadVersion(log') = HeadVersion(log) + 1
             /\ \A k \in 1..Len(log) : log'[k] = log[k]
             /\ \E k \in 1..Len(log'[Len(log')]) :
                   /\ log'[Len(log')][k].type = "Add"
                   /\ log'[Len(log')][k].batch = written'.batch]_vars

\* A write with a row that fails the registered predicate has failed.
C11_Witness ==
    /\ written.status = "err"
    /\ \E P \in RegisteredByLog(log) : ~check_batch(P, written.batch)
    /\ \E i \in Ops : pc[i] = "done"

\* The errors of the checks that precede the scan (lines 74-100)
PreconditionError == ConfigurationError \cup {"NoMetadata", "AlreadyExists"}

\* The validator has run and passed for invocation i: the scan was built,
\* no task has failed and every task was joined.
ValidatorPassed(i) ==
    /\ hist[i].scanned # <<>>
    /\ hist[i].failed = 0
    /\ tasks[i] = <<>>
    /\ ~HasViolation(hist[i].base, Text(i))

\* C12 as stated: the uniqueness check belongs to the Planner and runs only
\* after the Validator has passed, so a call that fails it has scanned the
\* table; the new metadata and protocol are computed only after the
\* Validator has passed, and commit is called only after them.
C12_StageOrdering_AsStated ==
    \A i \in Ops :
        /\ result[i].err = "AlreadyExists" => ValidatorPassed(i)
        /\ pc[i] \in {"plan", "commit"} => ValidatorPassed(i)
        /\ hist[i].commits # <<>> => ValidatorPassed(i)

\* C12, amended: the checks of the name, the expression, the metadata and
\* the uniqueness of the name all pass before the Validator starts, and a
\* call that fails one of them has built no scan, spawned no task and called
\* no commit; the new metadata and protocol are computed (and the action
\* list exists) only after the Validator has passed; commit is called only
\* with the computed action list, from the commit stage, and the invocation
\* returns from that call.
C12_StageOrdering ==
    \A i \in Ops :
        /\ (\/ pc[i] \in {"scan", "spawn", "join", "plan", "commit"}
            \/ hist[i].scanned # <<>> \/ tasks[i] # <<>>)
           => /\ Configured(i)
              /\ IsSome(hist[i].base.metadata)
              /\ ~Registered(hist[i].base, Key(i))
        /\ result[i].err \in PreconditionError
           => /\ hist[i].scanned = <<>> /\ tasks[i] = <<>>
              /\ hist[i].commits = <<>>
        /\ pc[i] \in {"scan", "spawn", "join"}
           => actions[i] = <<>> /\ hist[i].commits = <<>>
        /\ (pc[i] \in {"plan", "commit"} \/ actions[i] # <<>>
            \/ hist[i].commits # <<>>)
           => ValidatorPassed(i)
        /\ actions[i] # <<>> <=> pc[i] = "commit"
        /\ pc[i] = "commit"
           => /\ hist[i].commits = <<>>
              /\ actions[i] = NewActions(locals[i], hist[i].base)
        /\ hist[i].commits # <<>> => Terminal(i) /\ Len(hist[i].commits) = 1

\* An invocation stands before its call of commit, having validated a base
\* snapshot of two files.
C12_Witness ==
    \E i \in Ops :
        /\ pc[i] = "commit" /\ actions[i] # <<>>
        /\ ValidatorPassed(i)
        /\ Len(hist[i].base.files) = 2

\* C13 as stated: once tasks have been spawned, the step by which the
\* operation leaves the validation stage (it passes, or returns a violation,
\* a batch-read error or a scan error) is taken only when every spawned task
\* has run to completion; no task is left running behind.
C13_AwaitAll ==
    [][\A i \in Ops :
        (/\ pc[i] \in {"spawn", "join"} /\ pc'[i] \notin {"spawn", "join"}
         /\ tasks[i] # <<>>)
        => \A p \in 1..Len(tasks[i]) : tasks[i][p].status # "running"]_vars

\* The error a failed task hands to join_all
TaskError(t) == IF t.status = "panicked" THEN "Join" ELSE t.err

\* The partitions whose task has failed
FailedTasks(ts) ==
    { p \in 1..Len(ts) : ts[p].status \in {"err", "panicked"} }

\* C14 as stated: when tasks have failed, the error the operation reports
\* at the join is that of the task that was the first, in time, to fail.
C14_ReportedError_FirstInTime ==
    [][\A i \in Ops :
        (pc[i] = "join" /\ Returns(i) /\ hist[i].failed # 0)
        => result'[i].err = TaskError(tasks[i][hist[i].failed])]_vars

\* C14, amended: the join reports an error exactly when some task has
\* failed, and which one is fixed by the partition order, not by the time at
\* which the tasks failed: the join error when any task panicked, otherwise
\* the error of the failed task with the lowest partition index.
C14_ReportedError ==
    [][\A i \in Ops :
        (pc[i] = "join" /\ pc'[i] # "join")
        => LET failed == FailedTasks(tasks[i])
               panicked == { p \in failed : tasks[i][p].status = "panicked" }
           IN  /\ failed # {} <=> pc'[i] = "failed"
               /\ failed = {} <=> pc'[i] = "plan"
               /\ panicked # {} => result'[i].err = "Join"
               /\ (failed # {} /\ panicked = {})
                  => \E p \in failed :
                        /\ \A q \in failed : p <= q
                        /\ result'[i].err = tasks[i][p].err]_vars

\* The task of partition 2 failed first, on a row; the task of partition 1
\* failed later, on a read; the operation has reported the read error.
C14_Witness ==
    \E i \in Ops :
        /\ pc[i] = "failed" /\ tasks[i] = <<>>
        /\ hist[i].failed = 2
        /\ result[i].err = "BatchRead"
        /\ HasViolation(hist[i].base, Text(i))

\* The partition count of the plan of invocation i, while its tasks are
\* spawned and joined
PartitionCount(i) == IF pc[i] = "spawn" THEN Len(plan[i]) ELSE Len(tasks[i])

\* The batches of partition p of that plan
PartitionOf(i, p) ==
    PartitionBatches(hist[i].base.files, PartitionCount(i), p, 1)

IsSuffix(s, t) ==
    /\ Len(s) <= Len(t)
    /\ \A k \in 1..Len(s) : s[k] = t[Len(t) - Len(s) + k]

\* C15: the join passes validation exactly when every task has succeeded,
\* and then every batch of the base snapshot satisfies the predicate; when
\* no read failed and no task panicked, it passes exactly when no row of
\* the base snapshot fails the predicate, whatever the order of the steps
\* of the tasks.  The result of a task is fixed by the batches of its own
\* partition: it has succeeded only if all of them satisfy the predicate,
\* it has failed on a row only if one of them does not, and a step of one
\* task changes no other task.
C15_ValidationOutcome ==
    [][\A i \in Ops :
        /\ (pc[i] = "join" /\ pc'[i] # "join")
           => /\ pc'[i] = "plan"
                 <=> \A p \in 1..Len(tasks[i]) : tasks[i][p].status = "ok"
              /\ pc'[i] = "plan" => ~HasViolation(hist[i].base, Text(i))
              /\ (\A p \in 1..Len(tasks[i]) :
                     TaskError(tasks[i][p]) \notin {"BatchRead", "Join"})
                 => (pc'[i] = "plan"
                        <=> ~HasViolation(hist[i].base, Text(i)))
        /\ pc[i] \in {"spawn", "join"}
           => \A p \in 1..Len(tasks[i]) :
                 LET t == tasks[i][p]
                     batches == PartitionOf(i, p)
                 IN  /\ t.status = "ok"
                        => \A k \in 1..Len(batches) :
                              check_batch(Text(i), batches[k])
                     /\ t.err = "InvalidData"
                        => \E k \in 1..Len(batches) :
                              ~check_batch(Text(i), batches[k])
                     /\ IsSuffix(t.stream, batches)
                     /\ t.status = "running" => t.checker = Text(i)
        /\ \A p \in 1..Len(tasks[i]) :
              (p \in 1..Len(tasks'[i]) /\ tasks'[i][p] # tasks[i][p])
              => \A q \in 1..Len(tasks[i]) :
                    q # p => tasks'[i][q] = tasks[i][q]]_vars

\* Of two tasks the second found a failing row and the first found none;
\* the join has reported the violation.
C15_Witness ==
    \E i \in Ops :
        /\ pc[i] = "failed" /\ tasks[i] = <<>>
        /\ Len(hist[i].base.files) = 2
        /\ hist[i].failed = 2
        /\ result[i].err = "InvalidData"

\* The order of the places of an invocation in into_future: Configuring is
\* builder, Validating is scan, spawn and join, Planning is plan, Committing
\* is commit, Done and Failed are done and failed.
StageRank(s) ==
    CASE s = "idle" -> 0
      [] s = "builder" -> 1
      [] s = "scan" -> 2
      [] s = "spawn" -> 3
      [] s = "join" -> 4
      [] s = "plan" -> 5
      [] s = "commit" -> 6
      [] s \in {"done", "failed"} -> 7

\* A new invocation of instance i starts in this step
Starts(i) == pc[i] \in {"idle", "done", "failed"} /\ pc'[i] = "builder"

\* C16: within an invocation the place only moves forward, so every stage
\* is entered at most once and none is gone back to; Done is reached from
\* Committing only; an error is returned by moving to Failed; in Done and
\* Failed nothing of the invocation changes any more until the caller starts
\* a new invocation; commit is called at most once, from Committing, and
\* the invocation returns from that call; a commit conflict returns the
\* error without another call and without a change of the log.
C16_NoRetries ==
    [][\A i \in Ops :
        /\ pc'[i] # pc[i]
           => \/ Starts(i) /\ runs' = runs + 1 /\ hist'[i].commits = <<>>
              \/ /\ pc[i] \notin {"idle", "done", "failed"}
                 /\ StageRank(pc'[i]) > StageRank(pc[i])
                 /\ pc'[i] = "done" => pc[i] = "commit"
                 /\ pc'[i] = "failed" <=> result'[i].status = "err"
                 /\ pc'[i] = "done" <=> result'[i].status = "ok"
        /\ (Terminal(i) /\ pc'[i] = pc[i])
           => /\ result'[i] = result[i] /\ snapshot'[i] = snapshot[i]
              /\ locals'[i] = NoLocals /\ actions'[i] = <<>>
              /\ plan'[i] = <<>>
              /\ hist'[i].commits = hist[i].commits
              /\ hist'[i].scanned = hist[i].scanned
        /\ Len(hist'[i].commits) <= 1
        /\ hist'[i].commits # hist[i].commits
           => \/ Starts(i)
              \/ pc[i] = "commit" /\ pc'[i] \in {"done", "failed"}
        /\ (pc[i] = "commit" /\ pc'[i] # "commit")
           => Len(hist'[i].commits) = 1 /\ hist[i].commits = <<>>
        /\ (Returns(i) /\ result'[i].err = "CommitConflict")
           => /\ pc'[i] = "failed" /\ log' = log
              /\ LastCommit(i)'.version = -1]_vars

\* The one call of commit met a conflict and the invocation has failed; the
\* caller could still start another invocation.
C16_Witness ==
    \E i \in Ops :
        /\ pc[i] = "failed" /\ result[i] = Err("CommitConflict")
        /\ Len(hist[i].commits) = 1
        /\ hist[i].commits[1].version = -1
        /\ runs < MaxRuns

\* C17: a step of a task pulls the one next batch of its stream, in stream
\* order; the task goes on only when that batch was read and satisfies the
\* predicate; when the batch fails the predicate the task ends with the
\* violation (or with the read error or the panic that came instead); it
\* ends with success only at the end of the stream; and a task that has
\* ended pulls nothing more: what was left of its stream stays unread.
C17_FailFast ==
    [][\A i \in Ops :
        \A p \in 1..Len(tasks[i]) :
            p \in 1..Len(tasks'[i])
            => LET t == tasks[i][p]
                   u == tasks'[i][p]
               IN  /\ t.status # "running" => u = t
                   /\ (u # t /\ t.stream = <<>>)
                      => u.status = "ok" /\ u.stream = <<>>
                   /\ (u # t /\ t.stream # <<>>)
                      => /\ u.stream = Tail(t.stream)
                         /\ u.status # "ok"
                         /\ u.status = "running"
                            => check_batch(t.checker, Head(t.stream))
                         /\ ~check_batch(t.checker, Head(t.stream))
                            => /\ u.status \in {"err", "panicked"}
                               /\ u.status = "err"
                                  => u.err \in {"InvalidData", "BatchRead"}
                         /\ (faults' = faults
                             /\ ~check_batch(t.checker, Head(t.stream)))
                            => u.status = "err" /\ u.err = "InvalidData"]_vars

\* A task has ended on a failure with a batch of its partition left unread.
C17_Witness ==
    \E i \in Ops :
        \E p \in 1..Len(tasks[i]) :
            /\ tasks[i][p].status = "err"
            /\ tasks[i][p].stream # <<>>

\* The action list of a commit of the operation, as C18 describes it
IsConstraintRecord(commit_actions) ==
    /\ Len(commit_actions) = 3
    /\ commit_actions[1].type = "CommitInfo"
    /\ commit_actions[2].type = "Metadata"
    /\ commit_actions[3].type = "Protocol"
    /\ commit_actions[1].operation = "ADD CONSTRAINT"
    /\ commit_actions[1].isolation_level = "Serializable"
    /\ commit_actions[1].is_blind_append = FALSE
    /\ DOMAIN commit_actions[1].operation_parameters = {"name", "expr"}
    /\ HasEntry(commit_actions[2].metadata.configuration,
                <<ConstraintPrefix, commit_actions[1].operation_parameters.name>>,
                commit_actions[1].operation_parameters.expr)

\* C18: the action list an invocation hands to commit, and every commit of
\* the operation in the log, is <<CommitInfo, Metadata, Protocol>> in this
\* order, with isolation level Serializable, is_blind_append false and the
\* parameters name and expr equal to the name and the text of the entry in
\* the Metadata action, which are the name and the text of the invocation;
\* the Metadata and Protocol actions are the new metadata and protocol.
C18_CommittedRecord ==
    /\ \A i \in Ops :
          pc[i] = "commit"
          => /\ IsConstraintRecord(actions[i])
             /\ actions[i][1].operation_parameters
                   = [name |-> Unwrap(name[i]), expr |-> Text(i)]
             /\ actions[i][2].metadata.configuration
                   # Unwrap(hist[i].base.metadata).configuration
             /\ actions[i][3].protocol = NewProtocol(hist[i].base.protocol)
    /\ \A v \in 0..HeadVersion(log) :
          HasAction(log[v + 1], {"Metadata", "Protocol"}) /\ v > 0
          => IsConstraintRecord(log[v + 1])
    /\ \A i \in Ops :
          (hist[i].commits # <<>> /\ LastCommit(i).version >= 0)
          => /\ IsConstraintRecord(log[LastCommit(i).version + 1])
             /\ log[LastCommit(i).version + 1][1].operation_parameters
                   = [name |-> Unwrap(name[i]), expr |-> Text(i)]

\* A commit of the operation in the log carries the printed text of a parsed
\* expression both in its parameters and in its metadata entry.
C18_Witness ==
    \E v \in 1..HeadVersion(log) :
        /\ IsConstraintRecord(log[v + 1])
        /\ log[v + 1][1].operation_parameters.expr
              = <<"value", ">", "Int32(0)">>

\* C19: when an invocation has succeeded, the snapshot of the returned
\* table has the version it returned, which is the version of its commit in
\* the log, and the same metadata (configuration, schema, partition
\* columns) and protocol as the replay of the log up to that version, also
\* when commits of other writers lie between its base version and its own.
C19_SnapshotAgreesWithLog ==
    \A i \in Ops :
        pc[i] = "done"
        => LET replayed == Replay(log, result[i].version) IN
           /\ result[i].version = LastCommit(i).version
           /\ snapshot[i].version = result[i].version
           /\ replayed.version = snapshot[i].version
           /\ IsSome(snapshot[i].metadata)
           /\ Unwrap(snapshot[i].metadata).configuration
                 = Unwrap(replayed.metadata).configuration
           /\ snapshot[i].metadata = replayed.metadata
           /\ snapshot[i].protocol = replayed.protocol
           /\ log[result[i].version + 1][1].operation_parameters
                 = [name |-> Unwrap(name[i]), expr |-> Text(i)]

\* An invocation has succeeded at a version beyond the one after its base
\* version: another writer committed in between.
C19_Witness ==
    \E i \in Ops :
        /\ pc[i] = "done"
        /\ result[i].version > hist[i].base.version + 1
        /\ snapshot[i].version = result[i].version

\* C20: the Metadata action of a successful invocation holds the
\* configuration of the base snapshot with the one entry of its name added,
\* under a key the base did not have, and the schema and the partition
\* columns of the base snapshot; and the head of the log has the entries of
\* all the commits of the operation in the log, each with its text.
C20_MetadataFrame ==
    /\ \A i \in Ops :
          (hist[i].commits # <<>> /\ LastCommit(i).version >= 0)
          => LET committed ==
                     CommittedMetadata(log[LastCommit(i).version + 1])
                 base == Unwrap(hist[i].base.metadata)
             IN  /\ Key(i) \notin DOMAIN base.configuration
                 /\ DOMAIN committed.configuration
                       = DOMAIN base.configuration \cup {Key(i)}
                 /\ \A k \in DOMAIN base.configuration :
                       committed.configuration[k] = base.configuration[k]
                 /\ committed.configuration[Key(i)] = Some(Text(i))
                 /\ SchemaFromJson(committed.schema_string) = base.schema
                 /\ committed.partition_columns = base.partition_columns
    /\ \A v \in 1..HeadVersion(log) :
          \A a \in AddConstraintInfos(log[v + 1]) :
             LET before == Unwrap(Replay(log, v - 1).metadata)
                 after == Unwrap(Replay(log, v).metadata)
                 head == Unwrap(Replay(log, HeadVersion(log)).metadata)
                 key == <<ConstraintPrefix, a.operation_parameters.name>>
             IN  /\ DOMAIN after.configuration
                       = DOMAIN before.configuration \cup {key}
                 /\ \A k \in DOMAIN before.configuration :
                       after.configuration[k] = before.configuration[k]
                 /\ after.schema = before.schema
                 /\ after.partition_columns = before.partition_columns
                 /\ HasEntry(head.configuration, key,
                             a.operation_parameters.expr)

\* Two invocations with distinct names have succeeded one after the other,
\* and the head of the log has both constraints.
C20_Witness ==
    /\ Cardinality({ v \in 1..HeadVersion(log) : IsAddConstraint(log[v + 1]) })
          = 2
    /\ Cardinality(RegisteredTexts(
          Unwrap(Replay(log, HeadVersion(log)).metadata))) = 2

====
